---- MODULE Spec2Model ----
(***************************************************************************)
(* InGameTimeSpent (src/InGameTimeSpent/mod_ingametimespent.py): the game  *)
(* state machine (ClientLoadingState / LobbyLoadedState / ArenaLoadedState)*)
(* driven by the context InGameTimeSpentMod, its history cache and the     *)
(* sqlite-backed Database it commits to.                                   *)
(*                                                                         *)
(* State objects are Python objects with identity: the cache holds         *)
(* references to them, so the heap is the sequence objs and a reference is *)
(* an index into it.                                                       *)
(*                                                                         *)
(* The mod runs in the game client's interpreter (Python 2): str(x)        *)
(* .encode('utf-8') is a str, so DataRow.insert_row_query yields the       *)
(* decimal text of the numbers and the INSERT is well formed.              *)
(*                                                                         *)
(* Spec is a session of triggers, on_exit and commit calls on a database   *)
(* file that is either new or left by earlier sessions.  SpecSteps is the  *)
(* same session with _transition run one statement per step.  SpecStats is *)
(* a session that also calls get_historic_stats (Database.load_data and    *)
(* HistoricStats.calculate_stats).  SpecFaults is SpecStats with reads of  *)
(* the database that may fail.  SpecValidate is a call of                  *)
(* WotDecompiler.validate (src/decompile_scripts/decompile_scripts.py) in  *)
(* some environment and file system.  SpecDeploy is a call of             *)
(* ModDeploy._deploy_mod (src/deploy.py) on some res_mods directory.       *)
(* SpecReload is a client with ReloadInfoOnMinimap loaded                  *)
(* (src/ReloadInfoOnMinimap/mod_ReloadInfoOnMinimap.py): the game calling  *)
(* the two methods the mod replaced through Hook.                          *)
(***************************************************************************)
EXTENDS Integers, Sequences, FiniteSets, TLC

\* ------------------------------------------------------------------ bounds
MaxTime == 2      \* the clock reads 1..MaxTime (milliseconds, never backwards)
MaxObjs == 4      \* state objects constructed in one session
MaxAppended == 4  \* save_state calls in one session
MaxDirs == 2      \* entries of res_mods
MaxShots == 2     \* showTracer calls in one session
MaxStats == 2     \* get_historic_stats calls in one session

\* --------------------------------------------------------- GameStates.Names
BASE == "STATE_BASE"
CLIENT_LOADING == "STATE_CLIENT_LOADING"
LOBBY_LOADED == "STATE_LOBBY_LOADED"
ARENA_LOADED == "STATE_ARENA_LOADED"

Triggers == {"on_client_started", "on_lobby_loaded", "on_arena_loaded", "on_veh_destroyed"}

VARIABLES
    objs,        \* heap of state objects: <<[name, start, stop, veh]>>
    state,       \* InGameTimeSpentMod._state (reference)
    cache,       \* InGameTimeSpentMod._state_history_cache (references)
    now,         \* last reading of time.time()
    tableExists, \* the database file holds table WOT_GAME_TIME
    fresh,       \* Database._fresh_database
    rows,        \* rows of WOT_GAME_TIME, in insertion (rowid) order
    outcome,     \* how the last operation on the controller ended:
                 \*   "BadStateException" it raised that to its caller
                 \*   "stamped"           _start / on_veh_destroyed wrote a timestamp
                 \*   "return_early"      _start / on_veh_destroyed found it already set
                 \*   "transition"        _transition ran to its end
                 \*   "on_exit", "commit", "init"
    commitArg,   \* data_list that operation handed to Database.commit (<<>> if it made no commit)
    lastCommit,  \* what Database.commit returned to it: "ok" | "failed" ("none" if it made no commit)
    everFailed,  \* some Database.commit of a non-empty list has returned False
    appended,    \* every reference ever passed to save_state, in order
    visited,     \* STATE_NAME of every state installed as _state, in order
    nExit,       \* number of on_exit calls so far
    pc,          \* position inside GameStateBase._transition (0: not inside)
    recv,        \* self of the running _transition (0: none)
    nxt,         \* next_state of the running _transition (0: none)
    stats,       \* InGameTimeSpentMod._historic_stats (the HistoricStats object)
    nStats,      \* number of get_historic_stats calls so far
    environ,     \* os.environ['WOT_GAME_PATH']: <<>> when unset, <<value>> when set
    existing,    \* the paths that exist in the file system (besides the current directory)
    game_path,   \* the argument of WotDecompiler.validate
    validated,   \* how WotDecompiler.validate ended ("none" before the call)
    res_mods,    \* the names of the entries of <game_path>/res_mods
    deployed,    \* how ModDeploy._deploy_mod ended ("none" before the call)
    arenaVehiclesPlugin, \* g_reloadInfoMod._arenaVehiclesPlugin (0: None, else a plugin)
    entries,     \* plugin._entries of each plugin: the vehicles with a minimap entry
    animation,   \* the last plugin._invoke(id, 'setAnimation', ...): <<>> or <<[plugin, id]>>
    nShots,      \* number of showTracer calls so far
    nInvoked,    \* number of plugin._invoke(id, 'setAnimation', ...) calls so far
    everSet,     \* setArenaVehiclesPlugin has been called with a plugin
    hook         \* the last call of a method replaced through Hook

vars == <<objs, state, cache, now, tableExists, fresh, rows, outcome,
          commitArg, lastCommit, everFailed, appended, visited, nExit, pc, recv, nxt,
          stats, nStats, environ, existing, game_path, validated,
          res_mods, deployed,
          arenaVehiclesPlugin, entries, animation, nShots, nInvoked, everSet, hook>>

Name(id) == objs[id].name

Range(s) == {s[i] : i \in DOMAIN s}

\* ------------------------------------------------------------ state objects
\* GameStateBase.__init__ / ArenaLoadedState.__init__
NewState(name) == [name |-> name, start |-> 0, stop |-> 0, veh |-> 0]

\* Faulty variant: _start without its "already started" guard
_start_unguarded(o, t) == [o EXCEPT !.start = t]

\* GameStateBase._start
_start(o, t) == IF o.start > 0 THEN o ELSE [o EXCEPT !.start = t]

\* Faulty variant: _stop without its "already stopped" guard
_stop_unguarded(o, t) ==
    LET b == [o EXCEPT !.stop = t]
    IN  IF o.name = ARENA_LOADED THEN [b EXCEPT !.veh = b.stop] ELSE b

\* GameStateBase._stop, with ArenaLoadedState's override
_stop(o, t) ==
    LET b == IF o.stop > 0 THEN o ELSE [o EXCEPT !.stop = t]
    IN  IF o.name = ARENA_LOADED THEN [b EXCEPT !.veh = b.stop] ELSE b

\* Faulty variant: on_veh_destroyed also closing the phase
veh_destroyed_stops(o, t) ==
    IF o.veh > 0 THEN o ELSE [o EXCEPT !.veh = t, !.stop = t]

\* ArenaLoadedState.on_veh_destroyed (the reading is kept in the clock's
\* unit here; the code stores time.time() unscaled)
veh_destroyed(o, t) == IF o.veh > 0 THEN o ELSE [o EXCEPT !.veh = t]

\* What each state class does with each trigger:
\*   "start"      self._start()
\*   "transition" self._transition(<next>(self._context))
\*   "bad"        self._bad_state_exception(...)
\*   "veh"        the body of ArenaLoadedState.on_veh_destroyed
Do(kind, next) == [kind |-> kind, next |-> next]

\* Faulty variant: ClientLoadingState accepting on_arena_loaded
ClientLoadingState_to_arena(trig) ==
    CASE trig = "on_client_started" -> Do("start", CLIENT_LOADING)
      [] trig = "on_lobby_loaded"   -> Do("transition", LOBBY_LOADED)
      [] trig = "on_arena_loaded"   -> Do("transition", ARENA_LOADED)
      [] trig = "on_veh_destroyed"  -> Do("bad", CLIENT_LOADING)

ClientLoadingState(trig) ==
    CASE trig = "on_client_started" -> Do("start", CLIENT_LOADING)
      [] trig = "on_lobby_loaded"   -> Do("transition", LOBBY_LOADED)
      [] trig = "on_arena_loaded"   -> Do("bad", CLIENT_LOADING)
      [] trig = "on_veh_destroyed"  -> Do("bad", CLIENT_LOADING)

\* Faulty variant: LobbyLoadedState going back to ClientLoading on on_client_started
LobbyLoadedState_restarts(trig) ==
    CASE trig = "on_client_started" -> Do("transition", CLIENT_LOADING)
      [] trig = "on_lobby_loaded"   -> Do("start", LOBBY_LOADED)
      [] trig = "on_arena_loaded"   -> Do("transition", ARENA_LOADED)
      [] trig = "on_veh_destroyed"  -> Do("bad", LOBBY_LOADED)

LobbyLoadedState(trig) ==
    CASE trig = "on_client_started" -> Do("bad", LOBBY_LOADED)
      [] trig = "on_lobby_loaded"   -> Do("start", LOBBY_LOADED)
      [] trig = "on_arena_loaded"   -> Do("transition", ARENA_LOADED)
      [] trig = "on_veh_destroyed"  -> Do("bad", LOBBY_LOADED)

\* Faulty variant: ArenaLoadedState treating on_client_started like ClientLoadingState does
ArenaLoadedState_client_started(trig) ==
    CASE trig = "on_client_started" -> Do("start", ARENA_LOADED)
      [] trig = "on_lobby_loaded"   -> Do("transition", LOBBY_LOADED)
      [] trig = "on_arena_loaded"   -> Do("start", ARENA_LOADED)
      [] trig = "on_veh_destroyed"  -> Do("veh", ARENA_LOADED)

ArenaLoadedState(trig) ==
    CASE trig = "on_client_started" -> Do("bad", ARENA_LOADED)
      [] trig = "on_lobby_loaded"   -> Do("transition", LOBBY_LOADED)
      [] trig = "on_arena_loaded"   -> Do("start", ARENA_LOADED)
      [] trig = "on_veh_destroyed"  -> Do("veh", ARENA_LOADED)

\* self._state.<trig>() : the method of the class of the current state
Dispatch(name, trig) ==
    CASE name = CLIENT_LOADING -> ClientLoadingState(trig)
      [] name = LOBBY_LOADED   -> LobbyLoadedState(trig)
      [] name = ARENA_LOADED   -> ArenaLoadedState(trig)

\* ------------------------------------------------- the context as one value
\* The part of the program the state classes read and write.
M == [objs |-> objs, state |-> state, cache |-> cache,
      appended |-> appended, visited |-> visited]

Install(m) ==
    /\ objs' = m.objs
    /\ state' = m.state
    /\ cache' = m.cache
    /\ appended' = m.appended
    /\ visited' = m.visited

\* Faulty variant: _transition saving next_state instead of self
Stmt_saves_next(s, m, self, nx, t) ==
    CASE s = "stop"  -> [m EXCEPT !.objs[self] = _stop(@, t)]
      [] s = "save"  -> [m EXCEPT !.cache = Append(@, IF nx > 0 THEN nx ELSE self),
                                  !.appended = Append(@, IF nx > 0 THEN nx ELSE self)]
      [] s = "start" -> [m EXCEPT !.objs[nx] = _start(@, t)]
      [] s = "set"   -> [m EXCEPT !.state = nx,
                                  !.visited = Append(@, m.objs[nx].name)]

\* One statement of a state method, run on receiver self with next_state nx
\* at clock reading t.
\*   "stop"  : self._stop()
\*   "save"  : self.save_to_cache() -> InGameTimeSpentMod.save_state(self)
\*   "start" : next_state._start()
\*   "set"   : self._context.set_state(next_state) -> InGameTimeSpentMod.set_state
Stmt(s, m, self, nx, t) ==
    CASE s = "stop"  -> [m EXCEPT !.objs[self] = _stop(@, t)]
      [] s = "save"  -> [m EXCEPT !.cache = Append(@, self),
                                  !.appended = Append(@, self)]
      [] s = "start" -> [m EXCEPT !.objs[nx] = _start(@, t)]
      [] s = "set"   -> [m EXCEPT !.state = nx,
                                  !.visited = Append(@, m.objs[nx].name)]

\* Faulty variant: _transition without save_to_cache
_transition_body_no_save == <<"stop", "start", "set">>

\* Faulty variant: _transition installing the next state before saving the old one
_transition_body_set_first == <<"stop", "start", "set", "save">>

\* Faulty variant: _transition starting the next state before stopping self
_transition_body_start_first == <<"start", "save", "stop", "set">>

\* Faulty variant: _transition without self._stop()
_transition_body_no_stop == <<"save", "start", "set">>

\* The statements of GameStateBase._transition, in program order.
_transition_body == <<"stop", "save", "start", "set">>

\* Faulty variant: on_exit without save_to_cache
on_exit_body_no_save == <<"stop">>

\* The statements of GameStateBase.on_exit, in program order.
on_exit_body == <<"stop", "save">>

\* Whether a statement reads the clock.
ReadsClock(s) == s \in {"stop", "start"}

\* Run statements body[i..] in order.  The clock reads t1 during the first two
\* statements and t2 (>= t1) afterwards.
RECURSIVE Run(_, _, _, _, _, _, _)
Run(body, i, m, self, nx, t1, t2) ==
    IF i > Len(body) THEN m
    ELSE Run(body, i + 1,
             Stmt(body[i], m, self, nx, IF i <= 2 THEN t1 ELSE t2),
             self, nx, t1, t2)

\* ------------------------------------------------------------------ Database
\* str(n) for an integer n: its decimal digits, "-" first when negative.
Digit(d) == CASE d = 0 -> "0" [] d = 1 -> "1" [] d = 2 -> "2" [] d = 3 -> "3"
              [] d = 4 -> "4" [] d = 5 -> "5" [] d = 6 -> "6" [] d = 7 -> "7"
              [] d = 8 -> "8" [] d = 9 -> "9"

RECURSIVE NatToStr(_)
NatToStr(n) == IF n < 10 THEN <<Digit(n)>>
               ELSE Append(NatToStr(n \div 10), Digit(n % 10))

IntToStr(n) == IF n < 0 THEN <<"-">> \o NatToStr(0 - n) ELSE NatToStr(n)

\* Faulty variant: the row built from a StateData that kept its default name
_game_state_data_to_table_row_base(o, id) ==
    [date |-> IntToStr(o.start),
     duration |-> o.stop - o.start,
     game_state |-> BASE,
     src |-> id]

\* Database._game_state_data_to_table_row followed by DataRow.__init__: the
\* columns the INSERT names.  src is not a column: it records which state
\* object the row was built from.
_game_state_data_to_table_row(o, id) ==
    [date |-> IntToStr(o.start),
     duration |-> o.stop - o.start,
     game_state |-> o.name,
     src |-> id]

\* Faulty variant: a failed write that keeps the part of the batch already written
_execute_on_db_partial(table, new, raises) ==
    IF raises THEN [is_ok |-> FALSE, rows |-> table \o SubSeq(new, 1, 1)]
    ELSE [is_ok |-> TRUE, rows |-> table \o new]

\* Database._execute_on_db running the INSERT with callback on_insert_done:
\* the rows are staged by cursor.execute and made durable by
\* connection.commit(); if either raises (raises = TRUE) the connection is
\* closed without a commit, so nothing of the batch is kept.
_execute_on_db(table, new, raises) ==
    IF raises THEN [is_ok |-> FALSE, rows |-> table]
    ELSE [is_ok |-> TRUE, rows |-> table \o new]

\* Database.commit(data_list).  sqlite raises on its own when the table is
\* missing ("no such table") or when data_list is empty (the statement ends
\* after VALUES); fail is a write failure of the backing medium.
Database_commit(data_list, heap, fail) ==
    LET new == [i \in 1..Len(data_list) |->
                   _game_state_data_to_table_row(heap[data_list[i]], data_list[i])]
        raises == (~tableExists) \/ Len(data_list) = 0 \/ fail
    IN  _execute_on_db(rows, new, raises)

\* Faulty variant: commit that never clears the cache
commit_keeps(c, is_ok) == c

\* Faulty variant: commit that clears the cache whatever Database.commit answered
commit_clears(c, is_ok) == <<>>

\* InGameTimeSpentMod.commit: the cache afterwards, given Database.commit's answer.
commit(c, is_ok) == IF ~is_ok THEN c ELSE <<>>

\* ------------------------------------------------------------ reading back
\* int(text) for the decimal text of an integer.
DigitVal(c) == CHOOSE d \in 0..9 : Digit(d) = c

RECURSIVE StrToNat(_)
StrToNat(s) == IF Len(s) = 0 THEN 0
               ELSE 10 * StrToNat(SubSeq(s, 1, Len(s) - 1)) + DigitVal(s[Len(s)])

StrToInt(s) == IF Len(s) > 0 /\ s[1] = "-" THEN 0 - StrToNat(Tail(s)) ELSE StrToNat(s)

\* Database.DataRow.__init__ on a row fetched by SELECT *: wot_trace_id is the
\* rowid, date the stored text, duration the stored REAL (integers of this
\* size are exact in it), game_state the stored text.
DataRow(row, rowid) ==
    [wot_trace_id |-> rowid,
     date |-> row.date,
     duration |-> row.duration,
     game_state |-> row.game_state]

\* What Database.load_data returns.  A Database constructed on a file without
\* the table (isFresh) answers [] after _create_wot_table, every time;
\* otherwise the SELECT's rows, or [] when the SELECT raises (no table).
load_data(isFresh, exists, table) ==
    IF isFresh \/ ~exists THEN <<>>
    ELSE [i \in DOMAIN table |-> DataRow(table[i], i)]

\* The file after Database.load_data: CREATE TABLE runs when isFresh (and
\* raises, changing nothing, when the table is already there).
load_data_creates(isFresh, exists) == exists \/ isFresh

\* -------------------------------------------------------------- HistoricStats
\* Database.DataRow.STATE_LOADING / STATE_LOBBY / STATE_ARENA
STATE_LOADING == "LOADING"
STATE_LOBBY == "LOBBY"
STATE_ARENA == "ARENA"

\* The averages are floats (duration comes out of a REAL column); they are
\* kept here as exact fractions n/d in lowest terms, d > 0.
Abs(x) == IF x < 0 THEN 0 - x ELSE x

RECURSIVE GCD(_, _)
GCD(a, b) == IF b = 0 THEN a ELSE GCD(b, a % b)

Frac(n, d) == LET g == GCD(Abs(n), d) IN [n |-> n \div g, d |-> d \div g]

\* a += k
FAdd(a, k) == Frac(a.n + k * a.d, a.d)

\* a = a / k, k > 0
FDiv(a, k) == Frac(a.n, a.d * k)

\* HistoricStats._get_date, then .year and .month: the calendar month a
\* millisecond timestamp falls in.  Months are windows of TicksPerMonth
\* clock readings.
TicksPerMonth == 2
MonthOf(ms) == ms \div TicksPerMonth

\* HistoricStats.__init__
HistoricStats ==
    [_data |-> <<>>,
     all_time_avg_time_spent |-> Frac(0, 1),
     all_time_avg_game_loading |-> Frac(0, 1),
     all_time_loading_counter |-> 0,
     all_time_avg_game_lobby |-> Frac(0, 1),
     all_time_lobby_counter |-> 0,
     all_time_avg_game_arena |-> Frac(0, 1),
     all_time_arena_counter |-> 0,
     curr_month_avg_time_spent |-> Frac(0, 1),
     curr_month_counter |-> 0,
     curr_month_avg_game_loading |-> Frac(0, 1),
     curr_month_loading_counter |-> 0,
     curr_month_avg_game_lobby |-> Frac(0, 1),
     curr_month_lobby_counter |-> 0,
     curr_month_avg_game_arena |-> Frac(0, 1),
     curr_month_arena_counter |-> 0]

\* HistoricStats.set_data
set_data(h, data) == [h EXCEPT !._data = data]

\* Faulty variant: the lobby sums taking every row, whatever its game_state
AddRow_lobby_unfiltered(h, row, month) ==
    LET d == row.duration
        h1 == [h EXCEPT !.all_time_avg_time_spent = FAdd(@, d),
                        !.all_time_avg_game_lobby = FAdd(@, d),
                        !.all_time_lobby_counter = @ + 1]
    IN  IF MonthOf(StrToInt(row.date)) # month THEN h1
        ELSE [h1 EXCEPT !.curr_month_avg_time_spent = FAdd(@, d),
                        !.curr_month_counter = @ + 1,
                        !.curr_month_avg_game_lobby = FAdd(@, d),
                        !.curr_month_lobby_counter = @ + 1]

\* The body of the loop of calculate_stats for one row; month is the month
\* of datetime.datetime.now().
AddRow(h, row, month) ==
    LET d == row.duration
        g == row.game_state
        h1 == [h EXCEPT
                 !.all_time_avg_time_spent = FAdd(@, d),
                 !.all_time_avg_game_loading = IF g = STATE_LOADING THEN FAdd(@, d) ELSE @,
                 !.all_time_loading_counter = IF g = STATE_LOADING THEN @ + 1 ELSE @,
                 !.all_time_avg_game_lobby = IF g = STATE_LOBBY THEN FAdd(@, d) ELSE @,
                 !.all_time_lobby_counter = IF g = STATE_LOBBY THEN @ + 1 ELSE @,
                 !.all_time_avg_game_arena = IF g = STATE_ARENA THEN FAdd(@, d) ELSE @,
                 !.all_time_arena_counter = IF g = STATE_ARENA THEN @ + 1 ELSE @]
    IN  IF MonthOf(StrToInt(row.date)) # month THEN h1
        ELSE [h1 EXCEPT
                 !.curr_month_avg_time_spent = FAdd(@, d),
                 !.curr_month_counter = @ + 1,
                 !.curr_month_avg_game_loading = IF g = STATE_LOADING THEN FAdd(@, d) ELSE @,
                 !.curr_month_loading_counter = IF g = STATE_LOADING THEN @ + 1 ELSE @,
                 !.curr_month_avg_game_lobby = IF g = STATE_LOBBY THEN FAdd(@, d) ELSE @,
                 !.curr_month_lobby_counter = IF g = STATE_LOBBY THEN @ + 1 ELSE @,
                 !.curr_month_avg_game_arena = IF g = STATE_ARENA THEN FAdd(@, d) ELSE @,
                 !.curr_month_arena_counter = IF g = STATE_ARENA THEN @ + 1 ELSE @]

\* The loop of calculate_stats over self._data[i..].
RECURSIVE Accumulate(_, _, _)
Accumulate(h, i, month) ==
    IF i > Len(h._data) THEN h
    ELSE Accumulate(AddRow(h, h._data[i], month), i + 1, month)

\* Faulty variant: the overall sum left undivided
Averages_keeps_sum(h) ==
    LET over(a, k) == IF k > 0 THEN FDiv(a, k) ELSE a IN
    IF Len(h._data) = 0 THEN h
    ELSE [h EXCEPT
            !.curr_month_avg_time_spent = over(@, h.curr_month_counter)]

\* The divisions that end calculate_stats.
Averages(h) ==
    LET over(a, k) == IF k > 0 THEN FDiv(a, k) ELSE a IN
    IF Len(h._data) = 0 THEN h
    ELSE [h EXCEPT
            !.all_time_avg_time_spent = FDiv(@, Len(h._data)),
            !.all_time_avg_game_loading = over(@, h.all_time_loading_counter),
            !.all_time_avg_game_lobby = over(@, h.all_time_lobby_counter),
            !.all_time_avg_game_arena = over(@, h.all_time_arena_counter),
            !.curr_month_avg_time_spent = over(@, h.curr_month_counter),
            !.curr_month_avg_game_loading = over(@, h.curr_month_loading_counter),
            !.curr_month_avg_game_lobby = over(@, h.curr_month_lobby_counter),
            !.curr_month_avg_game_arena = over(@, h.curr_month_arena_counter)]

\* HistoricStats.calculate_stats
calculate_stats(h, month) == Averages(Accumulate(h, 1, month))

\* ------------------------------------------------------------------- Init
\* Rows a database file holds before the session: the row an earlier session
\* (on_client_started at 1, on_exit at 3) committed.
StoredRows ==
    <<[date |-> IntToStr(1), duration |-> 2, game_state |-> CLIENT_LOADING, src |-> 0]>>

\* ------------------------------------------------------ ReloadInfoOnMinimap
\* (src/ReloadInfoOnMinimap/mod_ReloadInfoOnMinimap.py)
\* The plugin objects the game starts (one per battle), the vehicles of a
\* battle and those of them isAlly answers True for.
Plugins == {1, 2}
Vehicles == {1, 2, 3}
Allies == {1, 2}

\* How a call ends.
Returns(v) == [kind |-> "return", value |-> v]
Raises(e) == [kind |-> "raise", value |-> e]

\* g_reloadInfoMod = ReloadInfoMinimap() and the module's hooks installed; no
\* plugin started, no hooked method called yet.
ReloadInit ==
    /\ arenaVehiclesPlugin = 0
    /\ entries = [p \in Plugins |-> {}]
    /\ animation = <<>>
    /\ nShots = 0
    /\ nInvoked = 0
    /\ everSet = FALSE
    /\ hook = [method |-> "none", trace |-> <<>>, original |-> Returns("None"),
               result |-> Returns("None")]

\* InGameTimeSpentMod.__init__, with Database.__init__ on a file that either
\* is new (no table) or was left by earlier sessions (table and rows).
ModInit ==
    /\ objs = <<NewState(CLIENT_LOADING)>>
    /\ state = 1
    /\ cache = <<>>
    /\ now = 1
    /\ tableExists \in BOOLEAN
    /\ fresh = ~tableExists
    /\ rows = (IF tableExists THEN StoredRows ELSE <<>>)
    /\ outcome = "init"
    /\ commitArg = <<>>
    /\ lastCommit = "none"
    /\ everFailed = FALSE
    /\ appended = <<>>
    /\ visited = <<CLIENT_LOADING>>
    /\ nExit = 0
    /\ pc = 0
    /\ recv = 0
    /\ nxt = 0
    /\ stats = HistoricStats
    /\ nStats = 0

\* ... in a process that does not use WotDecompiler.
Init ==
    /\ ModInit
    /\ environ = <<>>
    /\ existing = {}
    /\ game_path = ""
    /\ validated = [kind |-> "none", value |-> ""]
    /\ res_mods = {}
    /\ deployed = [kind |-> "none", dir |-> <<>>]
    /\ ReloadInit

dbVars == <<tableExists, fresh, rows, everFailed>>

\* An operation that makes no commit.
NoCommit == commitArg' = <<>> /\ lastCommit' = "none"
stepVars == <<pc, recv, nxt>>
statVars == <<stats, nStats>>
valVars == <<environ, existing, game_path, validated>>
deployVars == <<res_mods, deployed>>
reloadVars == <<arenaVehiclesPlugin, entries, animation, nShots, nInvoked, everSet, hook>>

\* ---------------------------------------------------------------- triggers
\* InGameTimeSpentMod.on_<trigger>: delegate to self._state, for the triggers
\* the state handles without leaving it (or refuses).
TriggerLocal(trig) ==
    LET d == Dispatch(Name(state), trig) IN
    /\ pc = 0
    /\ d.kind # "transition"
    /\ \/ /\ d.kind = "bad"
          /\ outcome' = "BadStateException"
          /\ UNCHANGED <<objs, state, cache, appended, visited, now>>
       \/ /\ d.kind = "start"
          /\ outcome' = IF objs[state].start > 0 THEN "return_early" ELSE "stamped"
          /\ \E t \in (IF objs[state].start > 0 THEN {now} ELSE now..MaxTime) :
                /\ Install([M EXCEPT !.objs[state] = _start(@, t)])
                /\ now' = t
       \/ /\ d.kind = "veh"
          /\ outcome' = IF objs[state].veh > 0 THEN "return_early" ELSE "stamped"
          /\ \E t \in (IF objs[state].veh > 0 THEN {now} ELSE now..MaxTime) :
                /\ Install([M EXCEPT !.objs[state] = veh_destroyed(@, t)])
                /\ now' = t
    /\ NoCommit
    /\ UNCHANGED <<dbVars, nExit, stepVars, statVars, valVars, deployVars, reloadVars>>

\* InGameTimeSpentMod.on_<trigger> for a trigger that leaves the state:
\* construct the next state object, then GameStateBase._transition.
TriggerTransition(trig) ==
    LET d == Dispatch(Name(state), trig)
        nx == Len(objs) + 1
        m0 == [M EXCEPT !.objs = Append(@, NewState(d.next))]
    IN
    /\ pc = 0
    /\ d.kind = "transition"
    /\ Len(objs) < MaxObjs
    /\ Len(appended) < MaxAppended
    /\ outcome' = "transition"
    /\ \E t1 \in (IF objs[state].stop > 0 THEN {now} ELSE now..MaxTime) :
       \E t2 \in t1..MaxTime :
          /\ Install(Run(_transition_body, 1, m0, state, nx, t1, t2))
          /\ now' = t2
    /\ recv' = state
    /\ nxt' = nx
    /\ NoCommit
    /\ UNCHANGED <<dbVars, nExit, pc, statVars, valVars, deployVars, reloadVars>>

Trigger(trig) == TriggerLocal(trig) \/ TriggerTransition(trig)

on_client_started == Trigger("on_client_started")

on_lobby_loaded == Trigger("on_lobby_loaded")

on_arena_loaded == Trigger("on_arena_loaded")

on_veh_destroyed == Trigger("on_veh_destroyed")

\* ------------------------------------------------------- commit and on_exit
\* The effect of InGameTimeSpentMod.commit on a context value m.
DoCommit(m, fail) ==
    LET r == Database_commit(m.cache, m.objs, fail) IN
    /\ Install([m EXCEPT !.cache = commit(m.cache, r.is_ok)])
    /\ rows' = r.rows
    /\ commitArg' = m.cache
    /\ lastCommit' = IF r.is_ok THEN "ok" ELSE "failed"
    /\ everFailed' = (everFailed \/ (~r.is_ok /\ m.cache # <<>>))
    /\ UNCHANGED <<tableExists, fresh>>

\* InGameTimeSpentMod.commit; fail: the write to the database file fails
CommitWith(fail) ==
    /\ pc = 0
    /\ outcome' = "commit"
    /\ DoCommit(M, fail)
    /\ UNCHANGED <<now, nExit, stepVars, statVars, valVars, deployVars, reloadVars>>

Commit == \E fail \in BOOLEAN : CommitWith(fail)

\* InGameTimeSpentMod.on_exit: self._state.on_exit(), then self.commit()
on_exit_with(fail) ==
    /\ pc = 0
    /\ Len(appended) < MaxAppended
    /\ outcome' = "on_exit"
    /\ \E t \in (IF objs[state].stop > 0 THEN {now} ELSE now..MaxTime) :
          /\ DoCommit(Run(on_exit_body, 1, M, state, 0, t, t), fail)
          /\ now' = t
    /\ nExit' = nExit + 1
    /\ UNCHANGED <<stepVars, statVars, valVars, deployVars, reloadVars>>

on_exit == \E fail \in BOOLEAN : on_exit_with(fail)

Next ==
    \/ on_client_started
    \/ on_lobby_loaded
    \/ on_arena_loaded
    \/ on_veh_destroyed
    \/ on_exit
    \/ Commit

Spec == Init /\ [][Next]_vars

\* --------------------------------------------------------- get_historic_stats
\* InGameTimeSpentMod.get_historic_stats: _load_data, then calculate_stats on
\* the HistoricStats object the controller has kept since its construction.
\* fault is what goes wrong with the database file during the load:
\*   "none"  nothing
\*   "open"  sqlite3.connect raises in Database._connect, which _execute_on_db
\*           calls before its try: the exception leaves get_historic_stats
\*   "read"  cursor.execute (or the fetch in the callback) raises inside the
\*           try: it is printed and swallowed, load_data returns []
Faults == {"none", "open", "read"}

get_historic_stats_with(fault) ==
    /\ pc = 0
    /\ nStats < MaxStats
    /\ \/ /\ fault = "none"
          /\ outcome' = "get_historic_stats"
          /\ stats' = calculate_stats(
                          set_data(stats, load_data(fresh, tableExists, rows)),
                          MonthOf(now))
          /\ tableExists' = load_data_creates(fresh, tableExists)
       \/ /\ fault = "open"
          /\ outcome' = "OperationalError"
          /\ UNCHANGED <<stats, tableExists>>
       \/ /\ fault = "read"
          /\ outcome' = "get_historic_stats after failed load"
          /\ stats' = calculate_stats(set_data(stats, <<>>), MonthOf(now))
          /\ UNCHANGED tableExists
    /\ nStats' = nStats + 1
    /\ NoCommit
    /\ UNCHANGED <<objs, state, cache, appended, visited, now, fresh, rows,
                   everFailed, nExit, stepVars, valVars, deployVars, reloadVars>>

get_historic_stats == \E fault \in Faults : get_historic_stats_with(fault)

\* Sessions that also ask for the statistics: the phase triggers, on_exit on
\* a medium that takes every write (a commit still fails when sqlite refuses
\* the statement), and get_historic_stats on a medium that can be read.
NextStats ==
    \/ \E trig \in Triggers \ {"on_veh_destroyed"} : Trigger(trig)
    \/ on_exit_with(FALSE)
    \/ get_historic_stats_with("none")

SpecStats == Init /\ [][NextStats]_vars

\* The same sessions on a database file that may fail to open or to be read.
NextFaults ==
    \/ \E trig \in Triggers \ {"on_veh_destroyed"} : Trigger(trig)
    \/ on_exit_with(FALSE)
    \/ get_historic_stats

SpecFaults == Init /\ [][NextFaults]_vars

\* ------------------------------------------- _transition, statement by statement
\* The same program with GameStateBase._transition run one statement per
\* step, so that the states between its statements are visible.  Nothing else
\* runs while it does (one thread), and an exception raised by save_state
\* (list.append can raise MemoryError) leaves _transition at that statement.

\* InGameTimeSpentMod.on_<trigger> up to the call of _transition: the next
\* state object is constructed as the argument.
BeginTransition(trig) ==
    LET d == Dispatch(Name(state), trig) IN
    /\ pc = 0
    /\ d.kind = "transition"
    /\ Len(objs) < MaxObjs
    /\ Len(appended) < MaxAppended
    /\ objs' = Append(objs, NewState(d.next))
    /\ recv' = state
    /\ nxt' = Len(objs) + 1
    /\ pc' = 1
    /\ outcome' = "running"
    /\ NoCommit
    /\ UNCHANGED <<state, cache, appended, visited, now, dbVars, nExit, statVars, valVars, deployVars, reloadVars>>

\* The statement of _transition at pc.
StepTransition ==
    /\ pc > 0
    /\ \E t \in (IF ReadsClock(_transition_body[pc]) THEN now..MaxTime ELSE {now}) :
          /\ Install(Stmt(_transition_body[pc], M, recv, nxt, t))
          /\ now' = t
    /\ pc' = IF pc = Len(_transition_body) THEN 0 ELSE pc + 1
    /\ outcome' = IF pc = Len(_transition_body) THEN "transition" ELSE "running"
    /\ NoCommit
    /\ UNCHANGED <<recv, nxt, dbVars, nExit, statVars, valVars, deployVars, reloadVars>>

\* save_state raises: the exception leaves _transition and the trigger.
SaveRaises ==
    /\ pc > 0
    /\ _transition_body[pc] = "save"
    /\ pc' = 0
    /\ outcome' = "Exception"
    /\ NoCommit
    /\ UNCHANGED <<objs, state, cache, appended, visited, now, recv, nxt, dbVars, nExit, statVars, valVars, deployVars, reloadVars>>

\* Sessions in which commit is reached through on_exit only.
NextSteps ==
    \/ \E trig \in Triggers : TriggerLocal(trig)
    \/ \E trig \in Triggers : BeginTransition(trig)
    \/ StepTransition
    \/ SaveRaises
    \/ on_exit

SpecSteps == Init /\ [][NextSteps]_vars

\* ------------------------------------------------------ WotDecompiler.validate
\* (src/decompile_scripts/decompile_scripts.py)
\* The paths of the model; "" is what Path("") denotes, the current directory.
Paths == {"", "game", "other", "gone"}

\* Path(p).exists(), ex being the paths that exist besides the current directory
PathExists(p, ex) == p = "" \/ p \in ex

Return(p) == [kind |-> "return", value |-> p]
AttributeError == [kind |-> "AttributeError", value |-> ""]

\* Faulty variant: validate that never looks at WOT_GAME_PATH
validate_ignores_env(env, ex, p) ==
    IF ~PathExists(p, ex) THEN AttributeError ELSE Return(p)

\* WotDecompiler.validate(game_path) with os.environ.get('WOT_GAME_PATH') being
\* None (env = <<>>) or env[1]; the test of line 34 is the truth value of
\* that string, False for None and for "".
validate(env, ex, p) ==
    IF env # <<>> /\ env[1] # ""
    THEN IF PathExists(env[1], ex) THEN Return(env[1]) ELSE AttributeError
    ELSE IF ~PathExists(p, ex) THEN AttributeError ELSE Return(p)

\* A process with some environment and file system, about to call validate.
InitValidate ==
    /\ ModInit
    /\ environ \in {<<>>} \cup {<<p>> : p \in Paths}
    /\ existing \in SUBSET (Paths \ {""})
    /\ game_path \in Paths
    /\ validated = [kind |-> "none", value |-> ""]
    /\ res_mods = {}
    /\ deployed = [kind |-> "none", dir |-> <<>>]
    /\ ReloadInit

\* The call WotDecompiler.validate(game_path).
WotDecompiler_validate ==
    /\ validated.kind = "none"
    /\ validated' = validate(environ, existing, game_path)
    /\ UNCHANGED <<objs, state, cache, now, tableExists, fresh, rows, outcome,
                   commitArg, lastCommit, everFailed, appended, visited, nExit,
                   pc, recv, nxt, stats, nStats, environ, existing, game_path,
                   deployVars, reloadVars>>

SpecValidate == InitValidate /\ [][WotDecompiler_validate]_vars

\* ------------------------------------------------------ ModDeploy._deploy_mod
\* (src/deploy.py)
\* A file name is the sequence of its parts between dots, each part the
\* sequence of its characters: "1.20.0.1" is <<<<"1">>, <<"2","0">>, <<"0">>, <<"1">>>>.
Digits == {Digit(d) : d \in 0..9}

\* The parts a version directory's name is made of: any of Parts in its first
\* two places, the least or the greatest of them in its last two.
Parts == {<<"0">>, <<"1">>, <<"9", "9">>}
LastParts == {<<"0">>, <<"9", "9">>}

\* The entries res_mods may hold: version directories with every component at
\* most 99, some with a component above 99, one with a leading zero, and names
\* that are no version.
DirNames ==
    {<<a, b, c, d>> : a \in Parts, b \in Parts, c \in LastParts, d \in LastParts}
    \cup {<<<<"1", "0", "0">>, <<"0">>, <<"0">>, <<"0">>>>,
          <<<<"1">>, <<"1", "0", "0">>, <<"0">>, <<"0">>>>,
          <<<<"0">>, <<"0">>, <<"0">>, <<"1", "0", "0">>>>,
          <<<<"0", "1">>, <<"0">>, <<"0">>, <<"0">>>>,
          <<<<"1">>, <<"9", "9">>, <<"1">>>>,
          <<<<"1">>, <<"0">>, <<"0">>, <<"0">>, <<"0">>>>,
          <<<<"m", "o", "d", "s">>>>}

\* version_re.match(name), version_re = [\d.]+ : the name starts with a digit
\* or a dot
version_re(name) ==
    IF Len(name[1]) = 0 THEN Len(name) > 1 ELSE name[1][1] \in Digits

\* version_re2.match(name), version_re2 = ^(\d+)\.(\d+)\.(\d+)\.(\d+)$
version_re2(name) ==
    /\ Len(name) = 4
    /\ \A i \in 1..4 : Len(name[i]) > 0 /\ \A k \in 1..Len(name[i]) : name[i][k] \in Digits

\* Faulty variant: weights of a decimal digit per component
value_tens(n1, n2, n3, n4) == n1 * 1000 + n2 * 100 + n3 * 10 + n4

\* value (lines 57-58)
value(n1, n2, n3, n4) == n1 * 1000000 + n2 * 10000 + n3 * 100 + n4

\* The loop of lines 43-61 over items[i..] in glob order, versions being the
\* list built so far; raised when line 54 raises.
RECURSIVE versions_loop(_, _, _)
versions_loop(items, i, versions) ==
    IF i > Len(items) THEN [raised |-> FALSE, versions |-> versions]
    ELSE LET name == items[i] IN
         IF version_re(name) /\ version_re2(name)
         THEN LET number1 == StrToNat(name[1])
                  number2 == StrToNat(name[2])
                  number3 == StrToNat(name[3])
                  number4 == StrToNat(name[4])
              IN  IF number1 > 99 \/ number2 > 99 \/ number3 > 99 \/ number4 > 99
                  THEN [raised |-> TRUE, versions |-> versions]
                  ELSE versions_loop(items, i + 1,
                          Append(versions,
                                 [name |-> name,
                                  value |-> value(number1, number2, number3, number4)]))
         ELSE versions_loop(items, i + 1, versions)

\* sorted(versions, key=lambda x: x[1], reverse=True): a stable sort, elements
\* of equal value keep their order
RECURSIVE sorted_reverse(_)
sorted_reverse(versions) ==
    IF Len(versions) = 0 THEN <<>>
    ELSE LET r == sorted_reverse(SubSeq(versions, 1, Len(versions) - 1))
             x == versions[Len(versions)]
             k == Cardinality({j \in 1..Len(r) : r[j].value >= x.value})
         IN  SubSeq(r, 1, k) \o <<x>> \o SubSeq(r, k + 1, Len(r))

\* ModDeploy._deploy_mod on a res_mods whose glob yields items
_deploy_mod(items) ==
    LET r == versions_loop(items, 1, <<>>) IN
    IF r.raised THEN [kind |-> "ValueError", dir |-> <<>>]
    ELSE IF Len(r.versions) = 0 THEN [kind |-> "IndexError", dir |-> <<>>]
    ELSE [kind |-> "deployed", dir |-> sorted_reverse(r.versions)[1].name]

\* The orders in which glob may yield the entries.
GlobOrders(S) ==
    {f \in [1..Cardinality(S) -> S] : \A i, j \in DOMAIN f : i # j => f[i] # f[j]}

\* A game directory whose res_mods holds at most MaxDirs entries.
InitDeploy ==
    /\ ModInit
    /\ fresh
    /\ environ = <<>>
    /\ existing = {}
    /\ game_path = ""
    /\ validated = [kind |-> "none", value |-> ""]
    /\ res_mods \in {{}} \cup {Range(f) : f \in [1..MaxDirs -> DirNames]}
    /\ deployed = [kind |-> "none", dir |-> <<>>]
    /\ ReloadInit

\* The call ModDeploy._deploy_mod(pyc_file).
ModDeploy_deploy_mod ==
    /\ deployed.kind = "none"
    /\ \E items \in GlobOrders(res_mods) : deployed' = _deploy_mod(items)
    /\ UNCHANGED <<objs, state, cache, now, tableExists, fresh, rows, outcome,
                   commitArg, lastCommit, everFailed, appended, visited, nExit,
                   pc, recv, nxt, stats, nStats, valVars, res_mods, reloadVars>>

SpecDeploy == InitDeploy /\ [][ModDeploy_deploy_mod]_vars

\* ------------------------------------------------- Hook and ReloadInfoMinimap
\* The part of the program the mod's functions read and write.
R == [plugin |-> arenaVehiclesPlugin, animation |-> animation,
      nInvoked |-> nInvoked, everSet |-> everSet]

\* self._arenaVehiclesPlugin._invoke(self._arenaVehiclesPlugin._entries[shooterId].getID(),
\*                                  'setAnimation', self._config['onShotAnimation'])
_invoke(r, shooterId) ==
    [r EXCEPT !.animation = <<[plugin |-> r.plugin, id |-> shooterId]>>,
              !.nInvoked = @ + 1]

\* ReloadInfoMinimap.setArenaVehiclesPlugin
setArenaVehiclesPlugin(r, p) ==
    [r EXCEPT !.plugin = p, !.everSet = @ \/ p # 0]

\* ReloadInfoMinimap._checkIfAlly
_checkIfAlly(r, shooterId) ==
    IF r.plugin = 0 THEN FALSE ELSE shooterId \in Allies

\* Faulty variant: onShowTracer without the ally check
onShowTracer_any_team(r, shooterId) ==
    IF r.plugin = 0 THEN r
    ELSE IF shooterId \in entries[r.plugin]
         THEN _invoke(r, shooterId)
         ELSE r

\* ReloadInfoMinimap.onShowTracer
onShowTracer(r, shooterId) ==
    IF r.plugin = 0 THEN r
    ELSE IF ~_checkIfAlly(r, shooterId) THEN r
    ELSE IF shooterId \in entries[r.plugin]
         THEN _invoke(r, shooterId)
         ELSE r

\* reloadInfoshowTracer(*args): args[1] raises IndexError on a call that gave
\* the shooter by keyword
reloadInfoshowTracer(r, args) ==
    IF Len(args) < 2 THEN [r |-> r, out |-> Raises("IndexError")]
    ELSE [r |-> onShowTracer(r, args[2]), out |-> Returns("None")]

\* vehPluginStart(*args)
vehPluginStart(r, args) ==
    [r |-> setArenaVehiclesPlugin(r, args[1]), out |-> Returns("None")]

\* Hook.__call__'s wrapper(*args, **kwargs), injected being what
\* injectedFunction(*args) did and original how the original method ends when
\* called: the calls made, in order, and how the wrapper ends.
wrapper(method, injected, original) ==
    IF injected.out.kind = "raise"
    THEN [method |-> method, trace |-> <<"injected">>, original |-> original,
          result |-> injected.out]
    ELSE [method |-> method, trace |-> <<"injected", "original">>,
          original |-> original, result |-> original]

\* How the game's own methods end.
OriginalOutcomes == {Returns("None"), Returns("value"), Raises("Exception")}

InstallReload(r) ==
    /\ arenaVehiclesPlugin' = r.plugin
    /\ animation' = r.animation
    /\ nInvoked' = r.nInvoked
    /\ everSet' = r.everSet

\* The game calls avatar.showTracer(shooterId, ...), the shooter given by
\* position or by keyword.
showTracer(shooterId, byKeyword, original) ==
    LET args == IF byKeyword THEN <<"avatar">> ELSE <<"avatar", shooterId>>
        inj == reloadInfoshowTracer(R, args)
    IN  /\ nShots < MaxShots
        /\ nShots' = nShots + 1
        /\ InstallReload(inj.r)
        /\ hook' = wrapper("showTracer", inj, original)
        /\ UNCHANGED entries

\* The game calls plugin.start(); the original start fills the minimap with
\* the vehicles it shows.
start(p, original, shown) ==
    LET inj == vehPluginStart(R, <<p>>) IN
    /\ InstallReload(inj.r)
    /\ hook' = wrapper("start", inj, original)
    /\ entries' = IF original.kind = "return" THEN [entries EXCEPT ![p] = shown]
                  ELSE entries
    /\ UNCHANGED nShots

modVars == <<objs, state, cache, now, tableExists, fresh, rows, outcome,
             commitArg, lastCommit, everFailed, appended, visited, nExit,
             pc, recv, nxt, stats, nStats>>

PlayerAvatar_showTracer ==
    /\ \E shooterId \in Vehicles, byKeyword \in BOOLEAN, original \in OriginalOutcomes :
          showTracer(shooterId, byKeyword, original)
    /\ UNCHANGED <<modVars, valVars, deployVars>>

ArenaVehiclesPlugin_start ==
    /\ \E p \in Plugins, original \in OriginalOutcomes, shown \in SUBSET Vehicles :
          start(p, original, shown)
    /\ UNCHANGED <<modVars, valVars, deployVars>>

\* A client with the mod loaded.
InitReload == Init /\ fresh

NextReload == PlayerAvatar_showTracer \/ ArenaVehiclesPlugin_start

SpecReload == InitReload /\ [][NextReload]_vars

\* ================================================================== claims
NamesOf(ids) == [i \in DOMAIN ids |-> objs[ids[i]].name]

Last(q) == q[Len(q)]

\* set_state is called by _transition only: one call per cross-state transition.
NumTransitions == Len(visited) - 1

\* The first on_exit of the session has just returned.
FirstExitDone == nExit = 1 /\ outcome = "on_exit"

\* The (state class, trigger) pairs of the transition table.
CrossPairs ==
    {<<CLIENT_LOADING, "on_lobby_loaded", LOBBY_LOADED>>,
     <<LOBBY_LOADED, "on_arena_loaded", ARENA_LOADED>>,
     <<ARENA_LOADED, "on_lobby_loaded", LOBBY_LOADED>>}

IllegalPairs ==
    {<<CLIENT_LOADING, "on_arena_loaded">>, <<CLIENT_LOADING, "on_veh_destroyed">>,
     <<LOBBY_LOADED, "on_client_started">>, <<LOBBY_LOADED, "on_veh_destroyed">>,
     <<ARENA_LOADED, "on_client_started">>}

InStatePairs ==
    {<<CLIENT_LOADING, "on_client_started">>, <<LOBBY_LOADED, "on_lobby_loaded">>,
     <<ARENA_LOADED, "on_arena_loaded">>}

\* C1: a fresh controller is in ClientLoading; a trigger changes the current
\* phase exactly when it is on_lobby_loaded in ClientLoading (to LobbyLoaded),
\* on_arena_loaded in LobbyLoaded (to ArenaLoaded) or on_lobby_loaded in
\* ArenaLoaded (to LobbyLoaded); every other step leaves the phase as it was.
C1_PhaseChanges ==
    /\ Name(state) = CLIENT_LOADING
    /\ [][ /\ \A p \in CrossPairs :
                (Trigger(p[2]) /\ Name(state) = p[1]) => Name(state)' = p[3]
           /\ \A trig \in Triggers :
                (Trigger(trig) /\ <<Name(state), trig, Name(state)'>> \notin CrossPairs)
                    => Name(state)' = Name(state)
           /\ (on_exit \/ Commit) => Name(state)' = Name(state) ]_vars

C1_Witness == visited = <<CLIENT_LOADING, LOBBY_LOADED, ARENA_LOADED, LOBBY_LOADED>>

\* C2: each of the five illegal trigger/state pairs raises BadStateException
\* and leaves the current phase, every timestamp and the history cache as
\* they were.
C2_IllegalRaises ==
    [][ \A p \in IllegalPairs :
            (Trigger(p[2]) /\ Name(state) = p[1])
                => /\ outcome' = "BadStateException"
                   /\ UNCHANGED <<state, objs, cache, appended>> ]_vars

C2_Witness == outcome = "BadStateException" /\ Name(state) = ARENA_LOADED

\* C3: when the first on_exit returns, the records appended to the history
\* cache are, in order, the phases the session visited (ClientLoading first,
\* the phase current at shutdown last); until then they are the phases left.
C3_HistoryIsVisited ==
    /\ FirstExitDone => NamesOf(appended) = visited
    /\ nExit = 0 => NamesOf(appended) = SubSeq(visited, 1, Len(visited) - 1)

C3_Witness ==
    /\ FirstExitDone
    /\ NamesOf(appended) = <<CLIENT_LOADING, LOBBY_LOADED, ARENA_LOADED, LOBBY_LOADED>>

\* C4: when the first on_exit returns, the number of records appended equals
\* the number of cross-state transitions plus one.
C4_RecordCount == FirstExitDone => Len(appended) = NumTransitions + 1

C4_Witness == FirstExitDone /\ NumTransitions = 3 /\ Len(appended) = 4

\* C5: _transition runs, in this order: stop the current phase (only if not
\* yet stopped), append it to the cache, start the next phase, install the
\* next phase; each step changes nothing else.  If the append raises, the
\* current phase is still the old one, stopped, and the next phase is neither
\* started nor installed.
C5_TransitionOrder ==
    /\ [](outcome = "Exception" =>
            /\ state = recv
            /\ objs[state].stop > 0
            /\ objs[nxt].start = 0)
    /\ [][ /\ (StepTransition /\ pc = 1) =>
                /\ objs'[recv].stop > 0
                /\ objs[recv].stop > 0 => objs'[recv].stop = objs[recv].stop
                /\ objs'[nxt] = objs[nxt]
                /\ UNCHANGED <<cache, appended, state>>
           /\ (StepTransition /\ pc = 2) =>
                /\ cache' = Append(cache, recv)
                /\ UNCHANGED <<objs, state>>
           /\ (StepTransition /\ pc = 3) =>
                /\ objs'[nxt].start > 0
                /\ objs'[recv] = objs[recv]
                /\ UNCHANGED <<cache, state>>
           /\ (StepTransition /\ pc = 4) =>
                /\ state = recv
                /\ state' = nxt
                /\ pc' = 0
                /\ UNCHANGED <<objs, cache>>
           /\ SaveRaises =>
                /\ objs[recv].stop > 0
                /\ UNCHANGED <<objs, state, cache>> ]_vars

\* A transition that ran to its end, after an earlier one whose append raised
\* (its next state object is the never-started one left on the heap).
C5_Witness ==
    /\ outcome = "transition"
    /\ state = nxt
    /\ objs[nxt].start > 0
    /\ objs[recv].stop > 0
    /\ Last(cache) = recv
    /\ \E i \in 2..Len(objs) : objs[i].start = 0

\* C6: the in-state trigger of the current phase keeps the current state and
\* appends nothing; it leaves the phase started; fired on a started phase it
\* changes no timestamp (so a second firing in a row changes nothing).
C6_InStateIdempotent ==
    [][ \A p \in InStatePairs :
            (Trigger(p[2]) /\ Name(state) = p[1])
                => /\ state' = state
                   /\ cache' = cache
                   /\ appended' = appended
                   /\ objs'[state].start > 0
                   /\ objs[state].start > 0 => objs' = objs ]_vars

C6_Witness == outcome = "return_early" /\ Name(state) = LOBBY_LOADED

\* C7: on_exit, in any phase, started or not, keeps the current state, sets
\* its stop_timestamp if it was 0 (and keeps it otherwise), and has appended
\* it to the cache when the commit is attempted; so a session that was shut
\* down has appended a record, and a fresh controller shut down at once
\* hands Database.commit exactly its ClientLoading record.
C7_ExitFlushes ==
    /\ [](nExit > 0 => appended # <<>>)
    /\ [][ on_exit =>
            /\ state' = state
            /\ objs'[state].stop > 0
            /\ objs[state].stop > 0 => objs'[state].stop = objs[state].stop
            /\ objs'[state].start = objs[state].start
            /\ appended' = Append(appended, state)
            /\ commitArg' = Append(cache, state)
            /\ outcome = "init" => NamesOf(commitArg') = <<CLIENT_LOADING>> ]_vars

C7_Witness ==
    /\ outcome = "on_exit"
    /\ Name(state) = CLIENT_LOADING
    /\ objs[state].start = 0
    /\ objs[state].stop > 0
    /\ commitArg = <<state>>

\* The rows Database.commit builds from data_list, read from the heap after
\* the operation.
RowsOf(ids) == [i \in DOMAIN ids |-> _game_state_data_to_table_row(objs[ids[i]], ids[i])]

\* C8: when Database.commit succeeds, commit (and so on_exit) leaves the
\* cache empty and the table extended by exactly one row per record that was
\* in the cache, in cache order, the earlier rows untouched.
C8_CommitSuccess ==
    [][ ((Commit \/ on_exit) /\ lastCommit' = "ok")
            => /\ cache' = <<>>
               /\ Commit => commitArg' = cache
               /\ on_exit => commitArg' = Append(cache, state)
               /\ rows' = rows \o RowsOf(commitArg)' ]_vars

C8_Witness ==
    /\ FirstExitDone
    /\ lastCommit = "ok"
    /\ cache = <<>>
    /\ visited = <<CLIENT_LOADING, LOBBY_LOADED>>
    /\ Len(rows) = Len(StoredRows) + 2
    /\ rows[Len(rows) - 1].game_state = CLIENT_LOADING
    /\ rows[Len(rows)].game_state = LOBBY_LOADED

\* C9: when the write fails during a commit, Database.commit reports failure,
\* the table holds exactly the rows it held before, and the cache holds every
\* record handed to the commit, in the same order.
C9_CommitFailure ==
    [][ (CommitWith(TRUE) \/ on_exit_with(TRUE))
            => /\ lastCommit' = "failed"
               /\ rows' = rows
               /\ cache' = commitArg'
               /\ Commit => cache' = cache
               /\ on_exit => cache' = Append(cache, state) ]_vars

C9_Witness ==
    /\ outcome = "on_exit"
    /\ lastCommit = "failed"
    /\ tableExists
    /\ Len(cache) >= 2
    /\ rows = StoredRows

\* C10: every record ever appended to the cache is still in the cache or is
\* the source of a persisted row.
C10_NothingLost ==
    \A i \in DOMAIN appended :
        \/ appended[i] \in Range(cache)
        \/ \E j \in DOMAIN rows : rows[j].src = appended[i]

\* ... reached by a commit that failed on a non-empty cache and a later one
\* that succeeded with the retained records and those appended since.
C10_Witness ==
    /\ everFailed
    /\ lastCommit = "ok"
    /\ cache = <<>>
    /\ Len(commitArg) >= 3
    /\ \A i \in DOMAIN appended : \E j \in DOMAIN rows : rows[j].src = appended[i]
\* C11: every closed record (one that was appended to the history cache)
\* whose start_timestamp is greater than 0 has stop_timestamp >=
\* start_timestamp.
C11_StopNotBeforeStart ==
    \A i \in Range(appended) :
        objs[i].start > 0 => objs[i].stop >= objs[i].start

\* C12: no phase record is appended to the history cache a second time.
C12_AppendedOnce ==
    \A i, j \in DOMAIN appended : appended[i] = appended[j] => i = j

\* C13: once a phase record has been appended to the history cache, no later
\* operation changes its start_timestamp, stop_timestamp or phase kind.
C13_AppendedFrozen ==
    [][ \A i \in Range(appended) :
            /\ objs'[i].start = objs[i].start
            /\ objs'[i].stop = objs[i].stop
            /\ objs'[i].name = objs[i].name ]_vars
\* C14: once a record's stop_timestamp is non-zero no operation changes it.
C14_StopWrittenOnce ==
    [][ \A i \in DOMAIN objs :
            objs[i].stop > 0 => objs'[i].stop = objs[i].stop ]_vars

\* A second on_exit, later on the clock than the first stop it left in place.
C14_Witness ==
    /\ outcome = "on_exit"
    /\ nExit = 2
    /\ objs[state].stop > 0
    /\ objs[state].stop < now

\* C15: each phase record of this session is the source of at most one
\* persisted row, and every step leaves the rows already persisted in place,
\* unchanged (the table only grows at its end).
C15_OneRowPerRecord ==
    /\ [](\A i, j \in DOMAIN rows :
             (rows[i].src = rows[j].src /\ rows[i].src > 0) => i = j)
    /\ [][ /\ Len(rows') >= Len(rows)
           /\ SubSeq(rows', 1, Len(rows)) = rows ]_vars
\* C16: on_exit called right after construction (no trigger fired, so the
\* ClientLoading phase never started) hands Database.commit a record whose
\* row is built with duration zero.
C16_ImmediateExitZeroDuration ==
    [][ (on_exit /\ outcome = "init")
            => /\ commitArg' = <<state>>
               /\ objs'[state].start = 0
               /\ _game_state_data_to_table_row(objs'[state], state).duration = 0 ]_vars
\* How often x occurs in the sequence q.
Count(q, x) == Cardinality({i \in DOMAIN q : q[i] = x})

\* (date, duration, phase kind) of a loaded row, the date read as a number.
TripleOfRow(r) == <<StrToInt(r.date), r.duration, r.game_state>>

\* (start_timestamp, stop_timestamp - start_timestamp, phase kind) of a record.
TripleOfRecord(o) == <<o.start, o.stop - o.start, o.name>>

\* C17: a load that follows a successful commit of N records returns, in any
\* order, the rows the store held before that commit and N rows whose (date,
\* duration, phase kind) are the committed records' (start_timestamp,
\* stop_timestamp - start_timestamp, phase kind); whether or not the file had
\* its table when the Database was constructed.
C17_RoundTrip ==
    [][ (get_historic_stats /\ lastCommit = "ok")
            => LET loaded == [i \in DOMAIN stats'._data |-> TripleOfRow(stats'._data[i])]
                   old == [i \in 1..(Len(rows) - Len(commitArg)) |-> TripleOfRow(rows[i])]
                   new == [i \in DOMAIN commitArg |-> TripleOfRecord(objs[commitArg[i]])]
               IN  /\ Len(loaded) = Len(old) + Len(new)
                   /\ \A x \in Range(loaded) \cup Range(old) \cup Range(new) :
                          Count(loaded, x) = Count(old, x) + Count(new, x) ]_vars
\* C18: every access to the store, a commit as well as a load, leaves the
\* table in the file (created by that access if it was absent), and a load
\* on a store that has the table and no rows returns the empty sequence.
C18_TableOnFirstAccess ==
    [][ /\ (on_exit \/ get_historic_stats) => tableExists'
        /\ (get_historic_stats /\ rows = <<>>) => stats'._data = <<>> ]_vars

\* C19: a get_historic_stats call that directly follows another one (same
\* rows, same date) returns the same statistics, field by field.
C19_StatsRecomputable ==
    [][ (get_historic_stats /\ outcome = "get_historic_stats") => stats' = stats ]_vars

\* The sum of the durations of the rows of q.
RECURSIVE SumDuration(_)
SumDuration(q) == IF q = <<>> THEN 0 ELSE Head(q).duration + SumDuration(Tail(q))

\* The average duration of the rows of q (0 when there are none).
AvgDuration(q) == IF q = <<>> THEN Frac(0, 1) ELSE Frac(SumDuration(q), Len(q))

\* The rows of q of phase kind k; the rows of q dated in month m.
OfKind(q, k) == SelectSeq(q, LAMBDA r : r.game_state = k)
InMonth(q, m) == SelectSeq(q, LAMBDA r : MonthOf(StrToInt(r.date)) = m)

\* C20: the first get_historic_stats of a session reports, for each phase
\* kind as commit writes it, the average duration of the loaded rows of that
\* kind, over all rows and over the rows dated in the current month.
C20_AveragePerKind ==
    (outcome = "get_historic_stats" /\ nStats = 1) =>
        LET q == stats._data
            c == InMonth(q, MonthOf(now))
        IN  /\ stats.all_time_avg_game_loading = AvgDuration(OfKind(q, CLIENT_LOADING))
            /\ stats.all_time_avg_game_lobby = AvgDuration(OfKind(q, LOBBY_LOADED))
            /\ stats.all_time_avg_game_arena = AvgDuration(OfKind(q, ARENA_LOADED))
            /\ stats.curr_month_avg_game_loading = AvgDuration(OfKind(c, CLIENT_LOADING))
            /\ stats.curr_month_avg_game_lobby = AvgDuration(OfKind(c, LOBBY_LOADED))
            /\ stats.curr_month_avg_game_arena = AvgDuration(OfKind(c, ARENA_LOADED))
\* C21: after the first get_historic_stats of a controller whose store holds
\* rows, all_time_avg_time_spent is the sum of the rows' durations divided
\* by their number, whatever their game_state.
C21_OverallAverage ==
    (outcome = "get_historic_stats" /\ nStats = 1 /\ rows # <<>>)
        => stats.all_time_avg_time_spent = AvgDuration(rows)

\* ... with two rows whose average is not a whole number.
C21_Witness ==
    /\ outcome = "get_historic_stats"
    /\ nStats = 1
    /\ Len(rows) = 2
    /\ stats.all_time_avg_time_spent = Frac(3, 2)

\* Every average and counter of the statistics is 0.
CounterFields ==
    {"all_time_loading_counter", "all_time_lobby_counter", "all_time_arena_counter",
     "curr_month_counter", "curr_month_loading_counter", "curr_month_lobby_counter",
     "curr_month_arena_counter"}

AllZero(h) ==
    \A f \in DOMAIN h :
        \/ f = "_data"
        \/ f \in CounterFields /\ h[f] = 0
        \/ f \notin CounterFields /\ h[f] = Frac(0, 1)

\* The aggregator's fields for each phase kind, with the game_state commit
\* writes for it and the one calculate_stats looks for.
KindFields ==
    {<<CLIENT_LOADING, STATE_LOADING, "all_time_avg_game_loading", "curr_month_avg_game_loading">>,
     <<LOBBY_LOADED, STATE_LOBBY, "all_time_avg_game_lobby", "curr_month_avg_game_lobby">>,
     <<ARENA_LOADED, STATE_ARENA, "all_time_avg_game_arena", "curr_month_avg_game_arena">>}

\* C22: get_historic_stats on a store without rows returns every statistic
\* equal to 0, and on a store with rows every phase kind that has no row
\* reports average 0 (all-time and current-month).
C22_ZeroWithoutRows ==
    outcome = "get_historic_stats" =>
        /\ rows = <<>> => AllZero(stats)
        /\ \A k \in KindFields :
              (\A i \in DOMAIN rows : rows[i].game_state \notin {k[1], k[2]})
                  => stats[k[3]] = Frac(0, 1) /\ stats[k[4]] = Frac(0, 1)

\* ... on a store whose only rows are ClientLoading rows: an overall average,
\* and 0 for the lobby.
C22_Witness ==
    /\ outcome = "get_historic_stats"
    /\ rows # <<>>
    /\ \A i \in DOMAIN rows : rows[i].game_state = CLIENT_LOADING
    /\ stats.all_time_avg_time_spent.n > 0
    /\ stats.all_time_avg_game_lobby = Frac(0, 1)
\* C23: when the database file cannot be opened or read during the load,
\* get_historic_stats raises to its caller and calculate_stats is not run
\* (the statistics object is left as it was).
C23_LoadFailurePropagates ==
    [][ \A fault \in Faults \ {"none"} :
            get_historic_stats_with(fault)
                => /\ outcome' = "OperationalError"
                   /\ stats' = stats ]_vars

\* C24: get_historic_stats leaves the current phase, every timestamp, the
\* history cache and the persisted rows as they were, and the commit of a
\* shutdown that follows it persists what the commit of a shutdown in its
\* place would have persisted.
C24_StatsReadOnly ==
    [][ get_historic_stats_with("none")
            => /\ UNCHANGED <<state, objs, cache, appended, rows>>
               /\ LET data_list == Append(cache, state)
                  IN  Database_commit(data_list, objs, FALSE)'
                          = Database_commit(data_list, objs, FALSE) ]_vars
\* C25: on_veh_destroyed in ArenaLoaded keeps the current phase, its
\* start_timestamp and stop_timestamp and the history cache; it leaves a
\* destroy time recorded, and changes nothing when one was recorded already.
C25_VehDestroyedInformational ==
    [][ (Trigger("on_veh_destroyed") /\ Name(state) = ARENA_LOADED)
            => /\ state' = state
               /\ objs'[state].start = objs[state].start
               /\ objs'[state].stop = objs[state].stop
               /\ cache' = cache
               /\ appended' = appended
               /\ objs'[state].veh > 0
               /\ objs[state].veh > 0 => objs' = objs ]_vars

\* A destroy time recorded in a running ArenaLoaded phase, and a further
\* trigger that found it set.
C25_Witness ==
    /\ outcome = "return_early"
    /\ Name(state) = ARENA_LOADED
    /\ objs[state].veh > 0
    /\ objs[state].stop = 0

PhaseKinds == {CLIENT_LOADING, LOBBY_LOADED, ARENA_LOADED}

\* C26: every record ever appended to the history cache, and every persisted
\* row, has kind ClientLoading, LobbyLoaded or ArenaLoaded, never STATE_BASE.
C26_NoBaseKind ==
    /\ \A i \in Range(appended) \cup Range(cache) : objs[i].name \in PhaseKinds
    /\ \A j \in DOMAIN rows : rows[j].game_state \in PhaseKinds

\* ... with rows of all three kinds persisted by this session.
C26_Witness ==
    /\ cache = <<>>
    /\ \A k \in PhaseKinds : \E j \in DOMAIN rows : rows[j].src > 0 /\ rows[j].game_state = k
\* C27 as stated: with WOT_GAME_PATH unset validate returns the given path
\* when it exists and raises AttributeError when it does not; with it set
\* (to any value) validate returns the variable's value when that path exists
\* and raises AttributeError when it does not.
C27_ValidateAsStated ==
    validated.kind # "none" =>
        IF environ = <<>>
        THEN validated = (IF PathExists(game_path, existing)
                          THEN Return(game_path) ELSE AttributeError)
        ELSE validated = (IF PathExists(environ[1], existing)
                          THEN Return(environ[1]) ELSE AttributeError)

\* C27, amended: the same, with WOT_GAME_PATH set to the empty string
\* counting as unset.
C27_Validate ==
    validated.kind # "none" =>
        IF environ = <<>> \/ environ = <<"">>
        THEN validated = (IF PathExists(game_path, existing)
                          THEN Return(game_path) ELSE AttributeError)
        ELSE validated = (IF PathExists(environ[1], existing)
                          THEN Return(environ[1]) ELSE AttributeError)

\* ... WOT_GAME_PATH is set to the empty string and the given path, which
\* exists, is returned.
C27_Witness ==
    /\ environ = <<"">>
    /\ game_path = "game"
    /\ validated = Return("game")

\* C28: of two consecutive phases linked by a cross-state transition the
\* successor starts no earlier than the predecessor stopped.  (State objects
\* are created by transitions only, each from the object created before it,
\* so consecutive phases are consecutive objects.)
C28_SuccessorStartsAfterStop ==
    \A i \in 1..(Len(objs) - 1) :
        /\ objs[i].stop > 0
        /\ objs[i + 1].start >= objs[i].stop

\* ... a successor that started strictly after its predecessor stopped.
C28_Witness ==
    /\ Len(objs) >= 2
    /\ objs[1].stop = 1
    /\ objs[2].start = 2

\* C29: every record in the history cache is closed; a phase installed as
\* current by a transition is started; the current phase's stop_timestamp is 0
\* unless on_exit has been called on it (which also saved it).
C29_CacheClosedCurrentOpen ==
    /\ \A k \in DOMAIN cache : objs[cache[k]].stop > 0
    /\ state > 1 => objs[state].start > 0
    /\ objs[state].stop > 0 => (nExit > 0 /\ state \in Range(appended))

\* ... a started, open phase installed by a transition, its predecessor closed
\* in the cache.
C29_Witness ==
    /\ outcome = "transition"
    /\ state = 3
    /\ objs[state].start > 0
    /\ objs[state].stop = 0
    /\ Len(cache) = 2

\* C30: after construction no phase installed is ClientLoading, the current
\* phase is the one installed last, and ArenaLoaded is installed only when the
\* phase before it was LobbyLoaded.
C30_NoReturnToClientLoading ==
    /\ visited[1] = CLIENT_LOADING
    /\ Name(state) = visited[Len(visited)]
    /\ \A k \in 2..Len(visited) :
          /\ visited[k] \in {LOBBY_LOADED, ARENA_LOADED}
          /\ visited[k] = ARENA_LOADED => visited[k - 1] = LOBBY_LOADED

\* ... ArenaLoaded entered from LobbyLoaded, ClientLoading left behind.
C30_Witness ==
    /\ visited = <<CLIENT_LOADING, LOBBY_LOADED, ARENA_LOADED>>
    /\ outcome = "transition"
\* The entries of res_mods that are named a.b.c.d, and their components.
VersionDirs == {n \in res_mods : version_re2(n)}
Components(n) == [i \in 1..4 |-> StrToNat(n[i])]
LexLess(s, t) ==
    \E i \in 1..4 : s[i] < t[i] /\ \A j \in 1..(i - 1) : s[j] = t[j]

\* C31: when some directory named a.b.c.d has a component above 99,
\* _deploy_mod raises ValueError; otherwise, when there is a directory named
\* a.b.c.d, it deploys into one of them whose (a, b, c, d) no other exceeds
\* lexicographically.
C31_GreatestVersion ==
    deployed.kind # "none" =>
        IF \E n \in VersionDirs : \E i \in 1..4 : Components(n)[i] > 99
        THEN deployed.kind = "ValueError"
        ELSE VersionDirs # {} =>
                /\ deployed.kind = "deployed"
                /\ deployed.dir \in VersionDirs
                /\ \A n \in VersionDirs :
                      ~LexLess(Components(deployed.dir), Components(n))

\* ... 1.0.0.0 chosen over 0.99.99.99.
C31_Witness ==
    /\ deployed.kind = "deployed"
    /\ res_mods = {<<<<"1">>, <<"0">>, <<"0">>, <<"0">>>>,
                   <<<<"0">>, <<"9", "9">>, <<"9", "9">>, <<"9", "9">>>>}
    /\ deployed.dir = <<<<"1">>, <<"0">>, <<"0">>, <<"0">>>>
\* C32: every call of a method replaced through Hook calls the injected
\* function, then the original method, and ends as the original method ends.
C32_HookCallsBoth ==
    hook.method # "none" =>
        /\ hook.trace = <<"injected", "original">>
        /\ hook.result = hook.original

\* C33: setAnimation is invoked only by a call that finds the plugin set (so
\* after setArenaVehiclesPlugin was called with a plugin), for a shooter that
\* is an ally and has an entry on that plugin's minimap.
C33_AnimationOnlyForAllies ==
    [][ nInvoked' # nInvoked =>
            /\ everSet
            /\ arenaVehiclesPlugin # 0
            /\ animation'[1].plugin = arenaVehiclesPlugin
            /\ animation'[1].id \in Allies
            /\ animation'[1].id \in entries[arenaVehiclesPlugin] ]_vars

\* ... of two showTracer calls one invoked the animation, for an ally on the
\* minimap of the plugin set.
C33_Witness ==
    /\ nInvoked = 1
    /\ nShots = 2
    /\ animation = <<[plugin |-> 2, id |-> 1]>>
    /\ hook.method = "showTracer"
====
